---- MODULE Spec2Model ----
(***************************************************************************)
(* Football automation workers (Chikwasman/automation).                    *)
(*                                                                         *)
(* The repository holds five variants of one scheduled job:                *)
(*   "part_000"  quota guard, one league per run, createMatches and        *)
(*               settleMatches as functions                                *)
(*   "worker"    src/worker.js, three fixed leagues, free mirror API       *)
(*   "part_001"  ScoreBat feed published to KV, settlement only            *)
(*   "part_002"  ethers worker, registration only                          *)
(*   "part_003"  leagues from LEAGUE_IDS, registration and settlement      *)
(* One invocation is modelled as a sequence of steps, one per awaited      *)
(* external call.  The ledger (the contract) and the data provider are     *)
(* the environment: every call can fail, and the provider answers are      *)
(* drawn from small pools.                                                 *)
(***************************************************************************)
EXTENDS Integers, Sequences, FiniteSets, TLC

VARIABLES
    variant,   \* which script is deployed
    env,       \* the worker's environment bindings
    clock,     \* Date.now() in epoch seconds
    matches,   \* the ledger: matches[id], nextMatchId = Len(matches) + 1
    inv,       \* inv[p]: the local state of invocation p of scheduled()
    faults,    \* external-call failures the environment may still inject
    items,     \* fixtures the provider may still return
    runs       \* invocations started so far

vars == <<variant, env, clock, matches, inv, faults, items, runs>>

----------------------------------------------------------------------------
(* Bounds of the model *)

MaxInitMatches == 2     \* ledger records present before the first run
MaxItems == 2           \* initial records + fixtures returned, per behaviour
MaxFaults == 1          \* injected failures of external calls
MaxTicks == 1           \* seconds that may pass after the first run starts
MaxRuns == 2            \* consecutive invocations (SpecRuns)
MaxRunItems == 1        \* initial records + fixtures returned (SpecRuns)
MaxRunFaults == 0       \* injected failures of external calls (SpecRuns)
MaxOverlapItems == 1    \* initial records + fixtures returned (SpecOverlap)
MaxLiveItems == 1       \* initial records + fixtures returned (SpecLive)
MaxLiveFaults == 1      \* injected failures of external calls (SpecLive)

(* Program constants *)

GRACE_SECONDS == 7200
DAILY_API_LIMIT == 100
SAFE_LIMIT == 80
QUOTA_FLOOR == 5
DEFAULT_CREATES == 10

Procs == {1, 2}
Variants == {"part_000", "worker", "part_001", "part_002", "part_003"}

LEAGUE_ROTATION == <<39, 140, 2>>

----------------------------------------------------------------------------
(* Conversions *)

RECURSIVE ParseDigits(_)
\* parseInt / Number of a decimal digit string, given as its digits
ParseDigits(s) ==
    IF s = <<>> THEN 0
    ELSE 10 * ParseDigits(SubSeq(s, 1, Len(s) - 1)) + s[Len(s)]

RECURSIVE ToStr(_)
\* String(n) for a non-negative integer, as its decimal digits
ToStr(n) ==
    IF n < 10 THEN <<n>> ELSE Append(ToStr(n \div 10), n % 10)

\* Math.floor(new Date(ts).getTime() / 1000); a date is <<seconds, millis>>
toUnix(ts) == ts[1]

\* new Date().getUTCDay(): 1970-01-01 was a Thursday (4)
UTCDay(t) == ((t \div 86400) + 4) % 7

getDailyLeagueIndex(t) == UTCDay(t) % Len(LEAGUE_ROTATION)

----------------------------------------------------------------------------
(* Environment bindings *)

Keys == {"RAPIDAPI_KEY", "RPC_URL", "CONTRACT_ADDRESS", "PRIVATE_KEY",
         "LEAGUE_IDS", "SCOREBAT_KEY", "MATCHES", "API_FOOTBALL_KEY",
         "CONTRACT_ABI"}

\* the bindings a variant reads
KeysRead(v) ==
    CASE v = "part_000" -> {"RAPIDAPI_KEY", "RPC_URL", "CONTRACT_ADDRESS", "PRIVATE_KEY"}
      [] v = "worker"   -> {"RPC_URL", "CONTRACT_ADDRESS", "PRIVATE_KEY"}
      [] v = "part_001" -> {"SCOREBAT_KEY", "RPC_URL", "CONTRACT_ADDRESS",
                            "PRIVATE_KEY", "MATCHES"}
      [] v = "part_002" -> {"LEAGUE_IDS", "API_FOOTBALL_KEY", "RPC_URL",
                            "PRIVATE_KEY", "CONTRACT_ABI", "CONTRACT_ADDRESS"}
      [] v = "part_003" -> {"RAPIDAPI_KEY", "RPC_URL", "CONTRACT_ADDRESS",
                            "PRIVATE_KEY", "LEAGUE_IDS"}

\* the bindings the variant's guard tests: if (!A || !B || ...) return
KeysChecked(v) ==
    CASE v = "part_000" -> {"RAPIDAPI_KEY", "RPC_URL", "CONTRACT_ADDRESS", "PRIVATE_KEY"}
      [] v = "worker"   -> {"RPC_URL", "CONTRACT_ADDRESS", "PRIVATE_KEY"}
      [] v = "part_001" -> {"SCOREBAT_KEY", "RPC_URL", "CONTRACT_ADDRESS", "PRIVATE_KEY"}
      [] v = "part_002" -> {}
      [] v = "part_003" -> {"RAPIDAPI_KEY", "RPC_URL", "CONTRACT_ADDRESS", "PRIVATE_KEY"}

\* the bindings dereferenced during set-up, after the guard: an absent one
\* raises a TypeError (x.split of undefined) or makes a constructor throw
KeysDereferenced(v) ==
    CASE v = "part_002" -> {"LEAGUE_IDS", "PRIVATE_KEY", "CONTRACT_ABI", "CONTRACT_ADDRESS"}
      [] v = "part_003" -> {"LEAGUE_IDS"}
      [] OTHER -> {}

ConfigMissing(v, e) == KeysChecked(v) \ e.has # {}

SetupThrows(v, e) == KeysDereferenced(v) \ e.has # {}

\* const { BATCH_LIMIT = "10" } = env, as digits; <<>> stands for undefined
BatchLimitText(e) == IF e.BATCH_LIMIT = <<>> THEN <<1, 0>> ELSE e.BATCH_LIMIT

\* Number(BATCH_LIMIT) / parseInt(BATCH_LIMIT)
BatchLimit(e) == ParseDigits(BatchLimitText(e))

\* part_000 createMatches: const maxCreates = opts.maxCreates || 10
MaxCreates(n) == IF n = 0 THEN DEFAULT_CREATES ELSE n

\* the leagues one run walks
Leagues(v, e, t) ==
    CASE v = "part_000" -> <<LEAGUE_ROTATION[getDailyLeagueIndex(t) + 1]>>
      [] v = "worker"   -> <<39, 140, 2>>
      [] v = "part_001" -> <<>>
      [] OTHER          -> e.LEAGUE_IDS

\* the creation cap in force; part_002 has none (-1)
CapOf(v, e) ==
    CASE v = "part_000" -> MaxCreates(BatchLimit(e))
      [] v = "part_002" -> -1
      [] OTHER          -> BatchLimit(e)

CapReached(created, cap) == cap >= 0 /\ created >= cap

BatchLimits == {<<>>, <<0>>, <<1>>}

EnvPool(v) ==
    {[has |-> Keys, BATCH_LIMIT |-> b, LEAGUE_IDS |-> <<39, 140>>] : b \in BatchLimits}
    \cup {[has |-> Keys \ {k}, BATCH_LIMIT |-> <<>>, LEAGUE_IDS |-> <<39, 140>>] :
             k \in KeysRead(v)}

----------------------------------------------------------------------------
(* The ledger (contract FootballBettingHybrid) *)

Clocks == {1700000000}

\* Date.now() is read at time t or later: the values it can give
Later(t) == t..((CHOOSE c \in Clocks : \A d \in Clocks : d <= c) + MaxTicks)

NoMatch ==
    [id |-> 0, home |-> "", away |-> "", matchTime |-> 0, outcome |-> 0,
     exists |-> FALSE, deleted |-> FALSE, externalMatchId |-> <<>>]

RecordKinds == {"due", "grace", "settled", "deleted", "empty"}

\* a record the ledger may hold at slot i when the first run starts, at time t
LedgerRecord(i, kind, t) ==
    CASE kind = "empty" -> NoMatch
      [] OTHER ->
        [id |-> i, home |-> "H", away |-> "G",
         matchTime |-> IF kind = "grace" THEN t - GRACE_SECONDS + 1
                       ELSE t - GRACE_SECONDS,
         outcome |-> IF kind = "settled" THEN 1 ELSE 0,
         exists |-> TRUE,
         deleted |-> (kind = "deleted"),
         externalMatchId |-> ToStr(100 * i)]

InitLedgers(t) ==
    UNION {{[i \in 1..n |-> LedgerRecord(i, k[i], t)] : k \in [1..n -> RecordKinds]} :
           n \in 0..MaxInitMatches}

\* the contract's outcome encoding: any non-zero value marks a settled match
OutcomeOf(h, a) == IF h > a THEN 1 ELSE IF h < a THEN 2 ELSE 3

Registered(ms, ext) ==
    \E k \in 1..Len(ms) : ms[k].exists /\ ms[k].externalMatchId = ext

\* createMatch(home, away, matchTime, externalId): rejects a known externalId
CreateAccepts(ms, args) == ~Registered(ms, args[4])

CreateMatch(ms, args) ==
    Append(ms, [id |-> Len(ms) + 1, home |-> args[1], away |-> args[2],
                matchTime |-> args[3], outcome |-> 0, exists |-> TRUE,
                deleted |-> FALSE, externalMatchId |-> args[4]])

\* settleMatchOffChain(id, homeScore, awayScore): rejects unknown, deleted
\* and already settled matches
SettleAccepts(ms, args) ==
    /\ args[1] \in 1..Len(ms)
    /\ ms[args[1]].exists
    /\ ~ms[args[1]].deleted
    /\ ms[args[1]].outcome = 0

SettleMatch(ms, args) ==
    [ms EXCEPT ![args[1]].outcome = OutcomeOf(args[2], args[3])]

----------------------------------------------------------------------------
(* The data provider *)

FixtureIds == {100, 101}
Statuses == {"NS", "FT"}

\* one element of the provider's "response" array, already in the shape
\* fetchFixtures maps it to, except for the date
ProviderFixture(fid, st, t) ==
    [fixtureId |-> fid,
     home |-> IF fid = 100 THEN "A" ELSE "C",
     away |-> IF fid = 100 THEN "B" ELSE "D",
     date |-> <<t + 86400, 500>>,
     status |-> st]

\* the response arrays of at most n fixtures, fixture ids distinct
ProviderLists(n, t) ==
    {<<>>}
    \cup (IF n >= 1
          THEN {<<ProviderFixture(f, st, t)>> : f \in FixtureIds, st \in Statuses}
          ELSE {})
    \cup (IF n >= 2
          THEN {<<ProviderFixture(fg[1], s1, t), ProviderFixture(fg[2], s2, t)>> :
                  fg \in {x \in FixtureIds \X FixtureIds : x[1] # x[2]},
                  s1 \in Statuses, s2 \in Statuses}
          ELSE {})

\* what the fixtures request can come back with
FixtureResponses(n, t) ==
    {[kind |-> "throw", list |-> <<>>], [kind |-> "badjson", list |-> <<>>],
     [kind |-> "noresp", list |-> <<>>]}
    \cup {[kind |-> "list", list |-> l] : l \in ProviderLists(n, t)}

IsFault(resp) == resp.kind \in {"throw", "badjson"}

\* (data.response || []).map(f => ({fixtureId, home, away, matchTime, status}))
NormalizeFixture(f) ==
    [fixtureId |-> f.fixtureId, home |-> f.home, away |-> f.away,
     matchTime |-> toUnix(f.date), status |-> f.status]

NormalizeList(l) == [k \in 1..Len(l) |-> NormalizeFixture(l[k])]

\* fetchFixtures of part_000 and part_003, and the fetch loop of part_002:
\* neither the request nor res.json() is inside a try block
fetchFixtures(resp) ==
    IF IsFault(resp) THEN [threw |-> TRUE, fixtures |-> <<>>]
    ELSE [threw |-> FALSE, fixtures |-> NormalizeList(resp.list)]

\* the answers to GET fixtures?id=: the request or res.json() throws; the
\* response array is empty; or its first element is a fixture with a short
\* status and goals
ScoreResponses ==
    {[kind |-> "throw", short |-> "", goals |-> <<0, 0>>],
     [kind |-> "empty", short |-> "", goals |-> <<0, 0>>],
     [kind |-> "fx", short |-> "1H", goals |-> <<1, 0>>],
     [kind |-> "fx", short |-> "FT", goals |-> <<2, 1>>]}

\* less usual answers: the body has no "response" field; the first element
\* has no fixture.status; the match ended after extra time or penalties,
\* or was abandoned; full time with other goals
OddScoreResponses ==
    {[kind |-> "noresp", short |-> "", goals |-> <<0, 0>>],
     [kind |-> "nostatus", short |-> "", goals |-> <<3, 0>>],
     [kind |-> "fx", short |-> "AET", goals |-> <<1, 1>>],
     [kind |-> "fx", short |-> "PEN", goals |-> <<0, 0>>],
     [kind |-> "fx", short |-> "ABD", goals |-> <<0, 1>>],
     [kind |-> "fx", short |-> "FT", goals |-> <<0, 3>>]}

NoScore == [threw |-> FALSE, status |-> "null", homeScore |-> 0, awayScore |-> 0]

\* fetchScore reporting every fixture the provider knows as finished
fetchScoreAnyStatus(resp) ==
    IF resp.kind = "throw" THEN [NoScore EXCEPT !.threw = TRUE]
    ELSE IF resp.kind \in {"noresp", "empty"} THEN NoScore
    ELSE [threw |-> FALSE, status |-> "finished",
          homeScore |-> resp.goals[1], awayScore |-> resp.goals[2]]

\* fetchScore (part_000, part_003) and fetchScoreFree (worker):
\* data.response?.[0] is undefined without a response field or element;
\* fx.fixture.status.short of an element without status is a TypeError
fetchScore(resp) ==
    IF resp.kind \in {"throw", "nostatus"} THEN [NoScore EXCEPT !.threw = TRUE]
    ELSE IF resp.kind \in {"noresp", "empty"} THEN NoScore
    ELSE IF resp.short = "FT"
         THEN [threw |-> FALSE, status |-> "finished",
               homeScore |-> resp.goals[1], awayScore |-> resp.goals[2]]
    ELSE [NoScore EXCEPT !.status = "pending"]

\* fetchScorebatResult (part_001): the placeholder { finished: false }
fetchScorebatResult == [NoScore EXCEPT !.status = "pending"]

\* ScoreFinished testing only that there is a result
ScoreFinishedAnyResult(r) == r.status # "null"

\* if (!result || result.status !== "finished") continue
ScoreFinished(r) == r.status = "finished"

\* the answers to GET status: the request throws, res.json() throws, the
\* body is the JSON value null (data.response is then a TypeError), or
\* requests.current is absent (-1) or the number of requests made today
QuotaResponses == {[kind |-> "throw", current |-> -1],
                   [kind |-> "badjson", current |-> -1],
                   [kind |-> "nullbody", current |-> -1],
                   [kind |-> "ok", current |-> -1],
                   [kind |-> "ok", current |-> 3], [kind |-> "ok", current |-> 99]}

\* the answers that raise an exception inside the try block of fetchApiUsage
QuotaFault(resp) == resp.kind \in {"throw", "badjson", "nullbody"}

\* fetchApiUsage taking an unreadable quota for an exhausted one
fetchApiUsageFailClosed(resp) ==
    IF QuotaFault(resp) \/ resp.current < 0 THEN 0 ELSE resp.current

\* fetchApiUsage: data.response?.requests?.current ?? 0, SAFE_LIMIT on error
fetchApiUsage(resp) ==
    IF QuotaFault(resp) THEN SAFE_LIMIT
    ELSE IF resp.current < 0 THEN 0 ELSE resp.current

\* if (apiRemaining < 5) return
QuotaStops(apiRemaining) == apiRemaining < QUOTA_FLOOR

----------------------------------------------------------------------------
(* One invocation of scheduled() *)

IdleInv ==
    [pc |-> "idle", exit |-> "none", leagues |-> <<>>, li |-> 0,
     fixtures |-> <<>>, fi |-> 0, created |-> 0, cap |-> 0,
     nextMatchId |-> 0, now |-> 0, i |-> 0, m |-> NoMatch, score |-> NoScore,
     settled |-> 0, log |-> <<>>]

\* an external call as the run issued it
Call(op, key, args, ok, note) ==
    [op |-> op, key |-> key, args |-> args, ok |-> ok, note |-> note]

Log(s, c) == [s EXCEPT !.log = Append(@, c)]

Exit(s, how) == [s EXCEPT !.pc = "done", !.exit = how]

\* part_002 has neither the status test nor a created counter
HasStatusFilter(v) == v # "part_002"
HasCounter(v) == v # "part_002"

\* where a run goes when the league loop is at index s.li
LeagueHead(v, s) ==
    IF v = "part_002"
    THEN (IF s.li > Len(s.leagues) THEN [s EXCEPT !.pc = "fixture", !.fi = 1]
          ELSE [s EXCEPT !.pc = "league"])
    ELSE IF s.li > Len(s.leagues) \/ (v # "part_000" /\ CapReached(s.created, s.cap))
         THEN [s EXCEPT !.pc = "settle"]
    ELSE [s EXCEPT !.pc = "league"]

\* where a run goes when the fixture loop ends
FixturesDone(v, s) ==
    IF v = "part_002" THEN Exit(s, "complete")
    ELSE LeagueHead(v, [s EXCEPT !.li = @ + 1])

\* the state after the environment is read and the clients are set up
Started(v, e, t, s) ==
    IF ConfigMissing(v, e) THEN Exit(s, "config")
    ELSE IF SetupThrows(v, e) THEN Exit(s, "threw")
    ELSE LET r == [s EXCEPT !.leagues = Leagues(v, e, t), !.li = 1,
                            !.cap = CapOf(v, e)]
         IN  CASE v = "part_000" -> [r EXCEPT !.pc = "quota"]
               [] v = "part_001" -> [r EXCEPT !.pc = "feed"]
               [] OTHER          -> LeagueHead(v, r)

----------------------------------------------------------------------------
(* Actions *)

Set(p, s) == inv' = [inv EXCEPT ![p] = s]

\* the environment injects a failure only while its budget lasts
Spend(failed) ==
    /\ failed => faults > 0
    /\ faults' = IF failed THEN faults - 1 ELSE faults

\* scheduled(event, env, ctx) -> runAutomation(env), up to the first await
Scheduled(p) ==
    /\ inv[p].pc = "idle"
    /\ Set(p, Started(variant, env, clock,
                      Log(inv[p], Call("run", runs + 1, <<>>, TRUE, ""))))
    /\ runs' = runs + 1
    /\ UNCHANGED <<variant, env, clock, matches, faults, items>>

\* part_000 step 2: const apiRemaining = await fetchApiUsage(env)
CheckQuota(p) ==
    /\ inv[p].pc = "quota"
    /\ \E resp \in QuotaResponses :
         LET s == Log(inv[p], Call("status", 0, <<resp.current>>, ~QuotaFault(resp),
                                   resp.kind))
         IN  /\ Spend(QuotaFault(resp))
             /\ Set(p, IF QuotaStops(fetchApiUsage(resp)) THEN Exit(s, "quota")
                       ELSE LeagueHead(variant, s))
    /\ UNCHANGED <<variant, env, clock, matches, items, runs>>

\* the response arrays the previous run was given for league lg: the
\* provider lists the coming days, so the next run can be given them again
PreviousLists(l, lg) ==
    LET starts == {k \in DOMAIN l : l[k].op = "run"}
        k1 == CHOOSE k \in starts : \A j \in starts : j <= k
    IN  {l[k].args[1] : k \in {j \in DOMAIN l : /\ j < k1
                                                /\ l[j].op = "fixtures"
                                                /\ l[j].key = lg
                                                /\ l[j].ok}}

\* the fixtures request for league s.leagues[s.li]; again: the provider
\* answers what it answered the previous run
FetchFrom(p, again) ==
    /\ inv[p].pc = "league"
    /\ LET s == inv[p]
           lg == s.leagues[s.li]
       IN  IF variant = "worker"
           THEN \* fetchFixturesFree is not defined: ReferenceError
                /\ Set(p, Exit(s, "threw"))
                /\ UNCHANGED <<faults, items>>
           ELSE \E resp \in IF again
                              THEN {[kind |-> "again", list |-> x] :
                                      x \in PreviousLists(s.log, lg)}
                              ELSE FixtureResponses(items, clock) :
                  LET r == fetchFixtures(resp)
                      c == Call("fixtures", lg, <<resp.list>>, ~r.threw, "")
                  IN  /\ Spend(IsFault(resp))
                      /\ items' = IF resp.kind = "again" THEN items
                                   ELSE items - Len(resp.list)
                      /\ Set(p, IF r.threw THEN Exit(Log(s, c), "threw")
                                ELSE IF variant = "part_002"
                                THEN LeagueHead(variant,
                                       [Log(s, c) EXCEPT !.fixtures = @ \o r.fixtures,
                                                         !.li = @ + 1])
                                ELSE [Log(s, c) EXCEPT !.fixtures = r.fixtures,
                                                       !.fi = 1, !.pc = "fixture"])
    /\ UNCHANGED <<variant, env, clock, matches, runs>>

\* the fixtures request for league s.leagues[s.li]
FetchLeague(p) == FetchFrom(p, FALSE)

\* the fixtures request of a run whose provider still lists what it listed
\* for the previous run
FetchLeagueAgain(p) ==
    /\ inv[p].pc = "league"
    /\ variant # "worker"
    /\ PreviousLists(inv[p].log, inv[p].leagues[inv[p].li]) # {}
    /\ FetchFrom(p, TRUE)

\* the arguments of the createMatch transaction for fixture fx
CreateArgs(fx) == <<fx.home, fx.away, fx.matchTime, ToStr(fx.fixtureId)>>

\* if (fx.status !== "NS") continue; part_002 has no such test
SkipsFixture(v, fx) == HasStatusFilter(v) /\ fx.status # "NS"

\* CreateDone without the try block: a failed call ends the run
CreateDoneUncaught(v, s, ok) ==
    IF ok THEN [s EXCEPT !.fi = @ + 1,
                         !.created = IF HasCounter(v) THEN @ + 1 ELSE @]
    ELSE [s EXCEPT !.pc = "done", !.exit = "threw"]

\* CreateDone counting a rejected call as a creation
CreateDoneCountingRejected(v, s, ok) ==
    [s EXCEPT !.fi = @ + 1, !.created = IF HasCounter(v) THEN @ + 1 ELSE @]

\* the state after the createMatch call of fixture s.fi: created++ on
\* success, the catch block on failure; the loop goes on either way
CreateDone(v, s, ok) ==
    [s EXCEPT !.fi = @ + 1,
              !.created = IF ok /\ HasCounter(v) THEN @ + 1 ELSE @]

\* one pass of the fixture loop
RegisterFixture(p) ==
    /\ inv[p].pc = "fixture"
    /\ LET s == inv[p]
       IN  IF s.fi > Len(s.fixtures) \/ CapReached(s.created, s.cap)
           THEN /\ Set(p, FixturesDone(variant, s))
                /\ UNCHANGED <<matches, faults>>
           ELSE LET fx == s.fixtures[s.fi]
                    args == CreateArgs(fx)
                IN  IF SkipsFixture(variant, fx)
                    THEN /\ Set(p, [s EXCEPT !.fi = @ + 1])
                         /\ UNCHANGED <<matches, faults>>
                    ELSE \E failed \in BOOLEAN :
                           LET ok == ~failed /\ CreateAccepts(matches, args)
                               c == Call("createMatch", fx.fixtureId, args, ok, fx.status)
                           IN  /\ Spend(failed)
                               /\ matches' = IF ok THEN CreateMatch(matches, args)
                                             ELSE matches
                               /\ Set(p, CreateDone(variant, Log(s, c), ok))
    /\ UNCHANGED <<variant, env, clock, items, runs>>

\* part_001: const matches = await fetchScorebat(env); errors are caught
PublishFeed(p) ==
    /\ inv[p].pc = "feed"
    /\ \E failed \in BOOLEAN :
         LET s == Log(inv[p], Call("feed", 0, <<>>, ~failed, ""))
         IN  /\ Spend(failed)
             /\ Set(p, IF "MATCHES" \in env.has THEN [s EXCEPT !.pc = "put"]
                       ELSE Exit(s, "threw"))
    /\ UNCHANGED <<variant, env, clock, matches, items, runs>>

\* part_001: await env.MATCHES.put("matches.json", ...), outside any try
StoreFeed(p) ==
    /\ inv[p].pc = "put"
    /\ \E failed \in BOOLEAN :
         LET s == Log(inv[p], Call("put", 0, <<>>, ~failed, ""))
         IN  /\ Spend(failed)
             /\ Set(p, IF failed THEN Exit(s, "threw") ELSE [s EXCEPT !.pc = "settle"])
    /\ UNCHANGED <<variant, env, clock, matches, items, runs>>

\* const nextMatchId = await readContract("nextMatchId"); const now = ...
ReadNextMatchId(p) ==
    /\ inv[p].pc = "settle"
    /\ \E failed \in BOOLEAN, t \in Later(clock) :
         LET s == Log(inv[p], Call("nextMatchId", 0, <<>>, ~failed, ""))
         IN  /\ Spend(failed)
             /\ failed => t = clock
             /\ clock' = t
             /\ Set(p, IF failed THEN Exit(s, "threw")
                       ELSE [s EXCEPT !.pc = "scan", !.i = 1, !.now = t,
                                      !.nextMatchId = Len(matches) + 1])
    /\ UNCHANGED <<variant, env, matches, items, runs>>


\* NotPending without the deleted test
NotPendingIgnoringDeleted(m) == ~m.exists \/ m.outcome # 0

\* NotPending without the outcome test
NotPendingIgnoringSettled(m) == ~m.exists \/ m.deleted

\* if (!exists || deleted || outcome !== 0) continue
NotPending(m) == ~m.exists \/ m.deleted \/ m.outcome # 0

\* InGrace without the 7200 seconds
InGraceWithoutWindow(m, now) == m.matchTime > now

\* if (matchTime + 7200 > now) continue
InGrace(m, now) == m.matchTime + GRACE_SECONDS > now

\* whether the pass reads Date.now() itself: part_001 does, for every
\* pending record; the others use the value taken before the loop
ReadsClock(v, failed, m) == v = "part_001" /\ ~failed /\ ~NotPending(m)

NowOf(v, s, t) == IF v = "part_001" THEN t ELSE s.now

\* NextPass stepping over an id
NextPassSkipping(s) ==
    [s EXCEPT !.i = @ + 2, !.pc = "scan", !.m = NoMatch, !.score = NoScore]

\* the next pass of the settlement loop: after a continue, after the
\* catch block, and after a settlement
NextPass(s) ==
    [s EXCEPT !.i = @ + 1, !.pc = "scan", !.m = NoMatch, !.score = NoScore]

\* Caught without the try block: the error leaves the loop
CaughtNowhere(s) == [s EXCEPT !.pc = "done", !.exit = "threw"]

\* catch (e) { console.log(...) }: the scan continues with the next id
Caught(s) == NextPass(s)

\* ScanDone going back to the league loop
ScanDoneRegistersAgain(s) ==
    IF s.leagues = <<>> THEN [s EXCEPT !.pc = "done", !.exit = "complete"]
    ELSE [s EXCEPT !.pc = "league", !.li = 1]

\* the end of the settlement loop: "Automation complete", and the run returns
ScanDone(s) == Exit(s, "complete")

\* one pass of the settlement loop, up to the score request
ReadMatch(p) ==
    /\ inv[p].pc = "scan"
    /\ LET s == inv[p]
       IN  IF s.i >= s.nextMatchId
           THEN /\ Set(p, ScanDone(s))
                /\ UNCHANGED <<faults, clock>>
           ELSE \E failed \in BOOLEAN, t \in Later(clock) :
                  LET m == matches[s.i]
                      c == Call("matches", s.i, IF failed THEN <<>> ELSE <<m>>,
                                ~failed, "")
                  IN  /\ Spend(failed)
                      /\ ~ReadsClock(variant, failed, m) => t = clock
                      /\ clock' = t
                      /\ Set(p, IF failed THEN Caught(Log(s, c))
                                ELSE IF NotPending(m)
                                        \/ InGrace(m, NowOf(variant, s, t))
                                THEN NextPass(Log(s, c))
                                ELSE [Log(s, c) EXCEPT !.m = m, !.pc = "score"])
    /\ UNCHANGED <<variant, env, matches, items, runs>>

\* const score = await fetchScore(env, externalMatchId), the provider
\* answering from pool
QueryFrom(p, pool) ==
    /\ inv[p].pc = "score"
    /\ LET s == inv[p]
       IN  \E resp \in pool :
             LET r == IF variant = "part_001" THEN fetchScorebatResult
                      ELSE fetchScore(resp)
                 c == Call("score", s.i,
                           <<s.m.externalMatchId, r.homeScore, r.awayScore, resp>>,
                           ~r.threw, IF r.threw THEN "threw" ELSE r.status)
             IN  /\ variant = "part_001" => resp.kind = "empty"
                 /\ Spend(r.threw)
                 /\ Set(p, IF r.threw THEN Caught(Log(s, c))
                           ELSE IF ScoreFinished(r)
                           THEN [Log(s, c) EXCEPT !.score = r, !.pc = "write"]
                           ELSE NextPass(Log(s, c)))
    /\ UNCHANGED <<variant, env, clock, matches, items, runs>>

QueryScore(p) == QueryFrom(p, ScoreResponses)

\* the score request of fetchScore and fetchScoreFree, answered less usually
QueryScoreOdd(p) ==
    /\ variant # "part_001"
    /\ QueryFrom(p, OddScoreResponses)

\* SettleArgs with the two scores in the wrong order
SettleArgsSwapped(s) == <<s.m.id, s.score.awayScore, s.score.homeScore>>

\* SettleArgs naming another id than the one read
SettleArgsOtherId(s) == <<s.m.id + 1, s.score.homeScore, s.score.awayScore>>

\* the arguments of the settleMatchOffChain transaction
SettleArgs(s) == <<s.m.id, s.score.homeScore, s.score.awayScore>>

\* SettleDone counting a failed call as a settlement
SettleDoneCountingFailed(s, ok) ==
    IF ok THEN NextPass([s EXCEPT !.settled = @ + 1])
    ELSE Caught([s EXCEPT !.settled = @ + 1])

\* the state after the settleMatchOffChain call: settled++ on success, the
\* catch block on failure
SettleDone(s, ok) ==
    IF ok THEN NextPass([s EXCEPT !.settled = @ + 1]) ELSE Caught(s)

\* await walletClient.writeContract(settleMatchOffChain, ...)
SettleWrite(p) ==
    /\ inv[p].pc = "write"
    /\ LET s == inv[p]
           args == SettleArgs(s)
       IN  \E failed \in BOOLEAN :
             LET ok == ~failed /\ SettleAccepts(matches, args)
                 c == Call("settleMatchOffChain", s.i, args, ok, "")
             IN  /\ Spend(failed)
                 /\ matches' = IF ok THEN SettleMatch(matches, args) ELSE matches
                 /\ Set(p, SettleDone(Log(s, c), ok))
    /\ UNCHANGED <<variant, env, clock, items, runs>>

\* the part of a log that starts at its last "run" entry
LastRun(l) ==
    LET starts == {k \in DOMAIN l : l[k].op = "run"}
    IN  IF starts = {} THEN <<>>
        ELSE SubSeq(l, CHOOSE k \in starts : \A j \in starts : j <= k, Len(l))

\* the next scheduled invocation, after the previous one has ended; the
\* log keeps the calls of the run that has just ended, and the time that
\* has passed shows at the next reading of the clock
Rescheduled(p) ==
    /\ inv[p].pc = "done"
    /\ runs < MaxRuns
    /\ Set(p, [IdleInv EXCEPT !.log = LastRun(inv[p].log)])
    /\ UNCHANGED <<variant, env, clock, matches, faults, items, runs>>

Step(p) ==
    \/ Scheduled(p)
    \/ CheckQuota(p)
    \/ FetchLeague(p)
    \/ RegisterFixture(p)
    \/ PublishFeed(p)
    \/ StoreFeed(p)
    \/ ReadNextMatchId(p)
    \/ ReadMatch(p)
    \/ QueryScore(p)
    \/ SettleWrite(p)

\* the states a first invocation can start in, with nItems records and
\* fixtures and nFaults failures to come
Start(nItems, nFaults) ==
    /\ variant \in Variants
    /\ env \in EnvPool(variant)
    /\ clock \in Clocks
    /\ matches \in InitLedgers(clock)
    /\ Len(matches) <= nItems
    /\ inv = [p \in Procs |-> IdleInv]
    /\ faults = nFaults
    /\ items = nItems - Len(matches)
    /\ runs = 0

Init == Start(MaxItems, MaxFaults)

\* one invocation
Next == Step(1)

Spec == Init /\ [][Next]_vars

\* consecutive invocations, each started after the previous one has ended
NextRuns == Step(1) \/ Rescheduled(1)

InitRuns == Start(MaxRunItems, MaxRunFaults)

SpecRuns == InitRuns /\ [][NextRuns]_vars

\* consecutive invocations over a provider that can list the same fixtures
\* again
NextTwice == Step(1) \/ Rescheduled(1) \/ FetchLeagueAgain(1)

SpecTwice == InitRuns /\ [][NextTwice]_vars

\* two invocations of scheduled() at once: the platform starts one per
\* trigger and the code holds no lock; invocation 1 is the one that starts
\* first
NextOverlap == Step(1) \/ (inv[1].pc # "idle" /\ Step(2))

\* the external calls of overlapping invocations do not fail
InitOverlap == Start(MaxOverlapItems, 0)

SpecOverlap == InitOverlap /\ [][NextOverlap]_vars

\* the provider's answers for a fixture at full time
FinishedResponses == {r \in ScoreResponses : r.kind = "fx" /\ r.short = "FT"}

\* a score request answered with the fixture at full time
QueryScoreFinished(p) == QueryFrom(p, FinishedResponses)

\* the trigger that follows a finished run, taken together with the start
\* of runAutomation; runs is left alone so that invocations can repeat
\* without end
RunAgain(p) ==
    /\ inv[p].pc = "done"
    /\ Set(p, Started(variant, env, clock,
                      Log(IdleInv, Call("run", runs, <<>>, TRUE, ""))))
    /\ UNCHANGED <<variant, env, clock, matches, faults, items, runs>>

\* invocations repeated for ever: the steps of a run are taken, the external
\* calls fail finitely often, and a match that is asked about again and
\* again is in the end reported at full time
NextLive == Step(1) \/ RunAgain(1)

InitLive == Start(MaxLiveItems, MaxLiveFaults)

SpecLive ==
    /\ InitLive
    /\ [][NextLive]_vars
    /\ WF_vars(NextLive)
    /\ SF_vars(QueryScoreFinished(1))

\* one invocation over a provider whose score answers can be less usual
NextScores == Step(1) \/ QueryScoreOdd(1)

SpecScores == Init /\ [][NextScores]_vars

----------------------------------------------------------------------------
(* Reading the call log *)

\* the calls of the current run of invocation p: what follows the last
\* "run" entry of its log
RunLog(p) ==
    LET l == inv[p].log
        starts == {k \in DOMAIN l : l[k].op = "run"}
    IN  IF starts = {} THEN <<>>
        ELSE LET k0 == CHOOSE k \in starts : \A j \in starts : j <= k
             IN  SubSeq(l, k0 + 1, Len(l))

At(l, op) == {k \in DOMAIN l : l[k].op = op}

\* the entries of op about key
Of(l, op, key) == {k \in DOMAIN l : l[k].op = op /\ l[k].key = key}

\* the calls of the run before the current one
PrevRunLog(p) ==
    LET l == inv[p].log
        starts == {k \in DOMAIN l : l[k].op = "run"}
    IN  IF Cardinality(starts) < 2 THEN <<>>
        ELSE LET k1 == CHOOSE k \in starts : \A j \in starts : j <= k
                 k0 == CHOOSE k \in starts \ {k1} : \A j \in starts \ {k1} : j <= k
             IN  SubSeq(l, k0 + 1, k1 - 1)

Ended(p) == inv[p].pc = "done"
Completed(p) == inv[p].pc = "done" /\ inv[p].exit = "complete"

----------------------------------------------------------------------------
(* Registration filter *)

\* C1: every createMatch call of a run is for a fixture whose provider
\* status is "NS": no call is issued for a fixture in any other status.
C1_OnlyNotStartedRegistered ==
    \A p \in Procs :
      \A k \in At(RunLog(p), "createMatch") : RunLog(p)[k].note = "NS"

----------------------------------------------------------------------------
(* Settlement filter *)

\* C2: a Score Source query or a settleMatchOffChain call for id is issued
\* only after the run has read a record for id that exists, is not deleted
\* and has outcome 0; the ledger agrees: the record exists, is not deleted,
\* and is unsettled unless this very run has settled it.
C2_NoCallForNonPending ==
    \A p \in Procs :
      LET l == RunLog(p)
      IN  \A k \in At(l, "score") \cup At(l, "settleMatchOffChain") :
            /\ \E j \in Of(l, "matches", l[k].key) :
                 /\ j < k
                 /\ l[j].ok
                 /\ l[j].args[1].exists
                 /\ ~l[j].args[1].deleted
                 /\ l[j].args[1].outcome = 0
            /\ matches[l[k].key].exists
            /\ ~matches[l[k].key].deleted
            /\ \/ matches[l[k].key].outcome = 0
               \/ \E j \in Of(l, "settleMatchOffChain", l[k].key) : l[j].ok /\ j >= k

\* a finished scan that read a settled, deleted or absent record, asked
\* the Score Source about another id, and issued nothing for the former
C2_Witness ==
    \E p \in Procs :
      /\ Completed(p)
      /\ \E id \in DOMAIN matches :
           /\ \E j \in Of(RunLog(p), "matches", id) :
                /\ RunLog(p)[j].ok
                /\ \/ ~RunLog(p)[j].args[1].exists
                   \/ RunLog(p)[j].args[1].deleted
                   \/ RunLog(p)[j].args[1].outcome # 0
           /\ Of(RunLog(p), "score", id) = {}
           /\ Of(RunLog(p), "settleMatchOffChain", id) = {}
      /\ At(RunLog(p), "score") # {}

\* C3: a settleMatchOffChain call is issued only for a match whose
\* matchTime + 7200 is not after the present time: a match still in its
\* grace window is never settled, whatever the Score Source would say.
C3_NoSettlementInGrace ==
    \A p \in Procs :
      LET l == RunLog(p)
      IN  \A k \in At(l, "settleMatchOffChain") :
            matches[l[k].key].matchTime + 7200 <= clock

\* a finished scan that read an unsettled record still in its grace window
\* and issued no settlement for it, while it settled another match
C3_Witness ==
    \E p \in Procs :
      /\ Completed(p)
      /\ \E id \in DOMAIN matches :
           /\ matches[id].exists /\ ~matches[id].deleted /\ matches[id].outcome = 0
           /\ matches[id].matchTime + 7200 > clock
           /\ \E j \in Of(RunLog(p), "matches", id) : RunLog(p)[j].ok
           /\ Of(RunLog(p), "settleMatchOffChain", id) = {}
      /\ \E k \in At(RunLog(p), "settleMatchOffChain") : RunLog(p)[k].ok

\* C4: when the Score Source returns a finished result (h, a) for the match
\* the scan is at, the very next call of the run is settleMatchOffChain
\* with (id, h, a), and it is the only settlement call for that id.
C4_FinishedSettledOnce ==
    \A p \in Procs :
      LET l == RunLog(p)
      IN  \A k \in At(l, "score") :
            (l[k].ok /\ l[k].note = "finished") =>
              /\ l[k].key \in 1..(inv[p].nextMatchId - 1)
              /\ \/ k = Len(l) /\ inv[p].pc = "write"
                 \/ /\ k < Len(l)
                    /\ l[k + 1].op = "settleMatchOffChain"
                    /\ l[k + 1].args = <<l[k].key, l[k].args[2], l[k].args[3]>>
              /\ Cardinality(Of(l, "settleMatchOffChain", l[k].key)) <= 1
              /\ Cardinality(Of(l, "score", l[k].key)) = 1

\* a finished scan in which a match whose result was finished with 2-1 was
\* settled by one accepted call carrying (id, 2, 1)
C4_Witness ==
    \E p \in Procs :
      /\ Completed(p)
      /\ \E k \in At(RunLog(p), "settleMatchOffChain") :
           /\ RunLog(p)[k].ok
           /\ RunLog(p)[k].args = <<RunLog(p)[k].key, 2, 1>>
           /\ matches[RunLog(p)[k].key].outcome # 0

----------------------------------------------------------------------------
(* Retry on the next run *)

NotFinished(c) == c.op = "score" /\ c.ok /\ c.note \in {"null", "pending"}

\* C5: when the Score Source answers null or pending for a match, the run
\* issues no settlement call for it and the ledger record stays as it was
\* read; in the next run, once the record is read again, the very next call
\* is a Score Source query for it.
C5_PendingRetried ==
    \A p \in Procs :
      LET l == RunLog(p)
          prev == PrevRunLog(p)
      IN  /\ \A k \in DOMAIN l :
               NotFinished(l[k]) =>
                 /\ Of(l, "settleMatchOffChain", l[k].key) = {}
                 /\ \E j \in Of(l, "matches", l[k].key) :
                      j < k /\ l[j].ok /\ matches[l[k].key] = l[j].args[1]
          /\ \A k \in DOMAIN prev :
               NotFinished(prev[k]) =>
                 \A j \in Of(l, "matches", prev[k].key) :
                   l[j].ok =>
                     \/ j = Len(l) /\ inv[p].pc = "score"
                     \/ j < Len(l) /\ l[j + 1].op = "score"
                                   /\ l[j + 1].key = prev[k].key

\* a second run that asks the Score Source again about a match whose
\* result was pending in the first run, the record being unchanged
C5_Witness ==
    \E p \in Procs :
      /\ Completed(p)
      /\ \E k \in DOMAIN PrevRunLog(p) :
           /\ NotFinished(PrevRunLog(p)[k])
           /\ PrevRunLog(p)[k].note = "pending"
           /\ Of(PrevRunLog(p), "settleMatchOffChain", PrevRunLog(p)[k].key) = {}
           /\ \E j \in Of(RunLog(p), "score", PrevRunLog(p)[k].key) :
                NotFinished(RunLog(p)[j])
           /\ matches[PrevRunLog(p)[k].key].outcome = 0

----------------------------------------------------------------------------
(* Creation cap *)

Accepted(l, op) == {k \in At(l, op) : l[k].ok}

\* C6: in the variants that read BATCH_LIMIT, a run never has more than
\* BATCH_LIMIT accepted createMatch calls, and issues no createMatch call
\* once BATCH_LIMIT of them have been accepted.
C6_CapBoundsCreations ==
    \A p \in Procs :
      LET l == RunLog(p)
          n == BatchLimit(env)
      IN  variant \in {"part_000", "worker", "part_003"} =>
            /\ Cardinality(Accepted(l, "createMatch")) <= n
            /\ \A k \in At(l, "createMatch") :
                 Cardinality({j \in Accepted(l, "createMatch") : j < k}) < n

----------------------------------------------------------------------------
(* Failures inside the loops *)

\* the index of the last fixtures request of the run, 0 if there is none
LastFetch(l) ==
    IF At(l, "fixtures") = {} THEN 0
    ELSE CHOOSE k \in At(l, "fixtures") : \A j \in At(l, "fixtures") : j <= k

\* C7: whatever createMatch calls fail, the calls issued for the fixtures
\* the loop has passed are, in order, exactly its NS fixtures (all of them
\* where the variant has no status test); the created count is the number
\* of accepted calls; the loop is left only at the end of the list or at
\* the cap; and no run ends with an exception after a createMatch call.
C7_FailedCreateDoesNotStop ==
    \A p \in Procs :
      LET s == inv[p]
          l == RunLog(p)
          f == LastFetch(l)
          wanted == {j \in 1..(s.fi - 1) :
                       s.fixtures[j].status = "NS" \/ variant = "part_002"}
          calls == {k \in At(l, "createMatch") : k > f}
      IN  (f > 0 /\ l[f].ok) =>
            /\ Cardinality(calls) = Cardinality(wanted)
            /\ \A j \in wanted : \E k \in calls :
                 /\ l[k].key = s.fixtures[j].fixtureId
                 /\ Cardinality({c \in calls : c < k})
                      = Cardinality({w \in wanted : w < j})
            /\ variant # "part_002" =>
                 s.created = Cardinality(Accepted(l, "createMatch"))
            /\ (s.pc \in {"settle", "scan", "score", "write"} \/ Completed(p)) =>
                 \/ s.fi > Len(s.fixtures)
                 \/ variant # "part_002" /\ s.created >= s.cap
            /\ (Ended(p) /\ s.exit = "threw") => l[Len(l)].op # "createMatch"

\* a completed run in which a createMatch call failed and a later fixture
\* was registered all the same
C7_Witness ==
    \E p \in Procs :
      /\ Completed(p)
      /\ \E k \in At(RunLog(p), "createMatch") :
           /\ ~RunLog(p)[k].ok
           /\ \E j \in Accepted(RunLog(p), "createMatch") : j > k

\* C8: once nextMatchId is read, the scan reads every id below it once, in
\* whatever way reads, score queries and settlement calls fail; it ends
\* only after the last id, and never with an exception; for every id read
\* successfully the Score Source is queried exactly when the record is
\* pending and out of its grace window, and a settlement call is issued
\* exactly when the query returned a finished result.
C8_ScanSurvivesFailures ==
    \A p \in Procs :
      LET s == inv[p]
          l == RunLog(p)
          passed == 1..(IF s.pc \in {"score", "write"} THEN s.i ELSE s.i - 1)
          closed == 1..(s.i - 1)
      IN  Accepted(l, "nextMatchId") # {} =>
            /\ s.pc \in {"scan", "score", "write", "done"}
            /\ Ended(p) => s.exit = "complete" /\ s.i = s.nextMatchId
            /\ \A k \in At(l, "matches") : l[k].key \in passed
            /\ \A id \in passed : Cardinality(Of(l, "matches", id)) = 1
            /\ \A id \in closed : \A j \in Of(l, "matches", id) :
                 LET m == l[j].args[1]
                     asked == Of(l, "score", id)
                     wrote == Of(l, "settleMatchOffChain", id)
                 IN  IF ~l[j].ok THEN asked = {} /\ wrote = {}
                     ELSE /\ (m.exists /\ ~m.deleted /\ m.outcome = 0
                               /\ m.matchTime + 7200 <= s.now) => asked # {}
                          /\ asked # {} =>
                               (m.exists /\ ~m.deleted /\ m.outcome = 0
                                /\ m.matchTime + 7200 <= clock)
                          /\ wrote # {} <=>
                               \E k \in asked : l[k].ok /\ l[k].note = "finished"

\* a completed scan in which a call about match 1 failed and match 2 was
\* settled
C8_Witness ==
    \E p \in Procs :
      /\ Completed(p)
      /\ \E k \in DOMAIN RunLog(p) :
           /\ RunLog(p)[k].op \in {"matches", "score", "settleMatchOffChain"}
           /\ RunLog(p)[k].key = 1
           /\ ~RunLog(p)[k].ok
      /\ \E k \in Accepted(RunLog(p), "settleMatchOffChain") : RunLog(p)[k].key = 2

\* C9: in worker.js and part_003, a fixtures request that fails does not
\* end the run: the run goes on and reads nextMatchId afterwards.
C9_FixtureFailureContained ==
    \A p \in Procs :
      LET l == RunLog(p)
      IN  (variant \in {"worker", "part_003"} /\ Ended(p)) =>
            \A k \in At(l, "fixtures") :
              ~l[k].ok => \E j \in At(l, "nextMatchId") : j > k

\* C10: in part_000, no failure of an external call makes an exception
\* escape runAutomation: a run in which a call failed still ends with
\* "Automation complete" (or stops at the quota check).
C10_NoExceptionEscapes ==
    \A p \in Procs :
      LET l == RunLog(p)
      IN  (variant = "part_000" /\ Ended(p) /\ \E k \in DOMAIN l : ~l[k].ok) =>
            inv[p].exit \in {"quota", "complete"}

----------------------------------------------------------------------------
(* Configuration and quota guards *)

\* C11: when a configuration value the variant reads (API key, RPC
\* endpoint, contract address, signing key, league identifiers) is absent,
\* a started run has ended at the configuration guard: it has issued no
\* external call and has raised no exception.
C11_MissingConfigStopsQuietly ==
    \A p \in Procs :
      (inv[p].pc # "idle"
       /\ (KeysRead(variant) \ {"MATCHES", "CONTRACT_ABI"}) \ env.has # {}) =>
        /\ Ended(p)
        /\ inv[p].exit = "config"
        /\ RunLog(p) = <<>>

\* C12: in part_000, when the usage the provider reports leaves fewer than
\* 5 of the 100 daily requests, the run ends at the quota check and the
\* status request is its only call; when it leaves 5 or more, the run does
\* not end at the quota check.
C12_QuotaGuardStops ==
    \A p \in Procs :
      LET l == RunLog(p)
      IN  \A k \in At(l, "status") :
            (l[k].ok /\ l[k].args[1] >= 0) =>
              IF DAILY_API_LIMIT - l[k].args[1] < QUOTA_FLOOR
              THEN Ended(p) /\ inv[p].exit = "quota" /\ Len(l) = 1
              ELSE inv[p].exit # "quota"

----------------------------------------------------------------------------
(* Phases of one invocation *)

RegisteringCalls == {"fixtures", "createMatch"}
SettlingCalls == {"nextMatchId", "matches", "score", "settleMatchOffChain"}

\* C13: in one run the quota request, if any, is the first call and is
\* issued once; every fixtures request and createMatch call comes before
\* every ledger read, score query and settlement call of the scan; the
\* scan starts once (one nextMatchId read); and a run that has ended
\* issues nothing more.
C13_PhasesInOrder ==
    \A p \in Procs :
      LET l == RunLog(p)
      IN  /\ \A k \in At(l, "status") : k = 1
          /\ \A k \in DOMAIN l : \A j \in DOMAIN l :
               (l[k].op \in RegisteringCalls /\ l[j].op \in SettlingCalls) => k < j
          /\ Cardinality(At(l, "nextMatchId")) <= 1
          /\ \A k \in At(l, "nextMatchId") :
               \A j \in DOMAIN l : l[j].op \in SettlingCalls => k <= j
          /\ (inv[p].pc \in {"quota", "league", "fixture"}) =>
               \A k \in DOMAIN l : l[k].op \notin SettlingCalls

\* a completed run that passed the quota check, registered a fixture and
\* then settled a match
C13_Witness ==
    \E p \in Procs :
      /\ Completed(p)
      /\ At(RunLog(p), "status") # {}
      /\ Accepted(RunLog(p), "createMatch") # {}
      /\ Accepted(RunLog(p), "settleMatchOffChain") # {}

----------------------------------------------------------------------------
(* Registration over consecutive runs *)

\* C14: over consecutive runs against a ledger that rejects a known
\* externalId, the ledger never holds two records with one externalId; the
\* createMatch calls of two consecutive runs have at most one accepted call
\* per fixture; a call for a fixture registered by the previous run is
\* rejected; and the created count of a run is the number of its accepted
\* calls, rejected duplicates left out.
C14_RegistrationIdempotent ==
    /\ \A i \in DOMAIN matches : \A j \in DOMAIN matches :
         (matches[i].exists /\ matches[j].exists
          /\ matches[i].externalMatchId = matches[j].externalMatchId) => i = j
    /\ \A p \in Procs :
         LET l == RunLog(p)
             prev == PrevRunLog(p)
         IN  /\ \A f \in FixtureIds :
                  Cardinality({k \in Accepted(l, "createMatch") : l[k].key = f})
                  + Cardinality({k \in Accepted(prev, "createMatch") : prev[k].key = f})
                    <= 1
             /\ (HasCounter(variant) /\ inv[p].pc # "idle") =>
                  inv[p].created = Cardinality(Accepted(l, "createMatch"))

\* a second run that was given the fixture the first run registered: its
\* createMatch call was rejected and its created count is 0
C14_Witness ==
    \E p \in Procs :
      /\ Completed(p)
      /\ HasCounter(variant)
      /\ inv[p].created = 0
      /\ \E k \in Accepted(PrevRunLog(p), "createMatch") :
           \E j \in At(RunLog(p), "createMatch") :
             /\ RunLog(p)[j].key = PrevRunLog(p)[k].key
             /\ ~RunLog(p)[j].ok

----------------------------------------------------------------------------
(* Settlement over consecutive runs *)

\* C15: over consecutive runs a match has at most one accepted
\* settleMatchOffChain call; once a call for an id has been accepted, the
\* rest of that run and the next run issue no Score Source query and no
\* settlement call for the id.
C15_SettledAtMostOnce ==
    \A p \in Procs :
      LET l == RunLog(p)
          prev == PrevRunLog(p)
      IN  \A id \in DOMAIN matches :
            /\ Cardinality({k \in Accepted(l, "settleMatchOffChain") : l[k].key = id})
               + Cardinality({k \in Accepted(prev, "settleMatchOffChain") :
                                prev[k].key = id}) <= 1
            /\ \A k \in Accepted(prev, "settleMatchOffChain") :
                 prev[k].key = id =>
                   /\ matches[id].outcome # 0
                   /\ Of(l, "score", id) = {}
                   /\ Of(l, "settleMatchOffChain", id) = {}
            /\ \A k \in Accepted(l, "settleMatchOffChain") :
                 l[k].key = id =>
                   /\ matches[id].outcome # 0
                   /\ \A j \in Of(l, "score", id) \cup Of(l, "settleMatchOffChain", id) :
                        j <= k

\* a completed run that read a match the previous run had settled and
\* issued nothing for it
C15_Witness ==
    \E p \in Procs :
      /\ Completed(p)
      /\ \E k \in Accepted(PrevRunLog(p), "settleMatchOffChain") :
           /\ \E j \in Of(RunLog(p), "matches", PrevRunLog(p)[k].key) :
                RunLog(p)[j].ok /\ RunLog(p)[j].args[1].outcome # 0
           /\ Of(RunLog(p), "score", PrevRunLog(p)[k].key) = {}

----------------------------------------------------------------------------
(* Score Source *)

\* C16: for every answer of the provider to a score request of fetchScore
\* or fetchScoreFree: without a record the result is null; with a record
\* whose status is not "FT" it is pending; with status "FT" it is finished
\* with the provider's goals; and a finished result comes from nothing else
\* (not from a failed, empty or malformed answer).
C16_ScoreSourceResults ==
    \A p \in Procs :
      LET l == RunLog(p)
      IN  variant # "part_001" =>
            \A k \in At(l, "score") :
              LET resp == l[k].args[4]
              IN  /\ resp.kind \in {"throw", "nostatus"} => ~l[k].ok
                  /\ resp.kind \in {"noresp", "empty"} => l[k].ok /\ l[k].note = "null"
                  /\ (resp.kind = "fx" /\ resp.short # "FT") =>
                       l[k].ok /\ l[k].note = "pending"
                  /\ (resp.kind = "fx" /\ resp.short = "FT") =>
                       /\ l[k].ok /\ l[k].note = "finished"
                       /\ <<l[k].args[2], l[k].args[3]>> = resp.goals
                  /\ l[k].note = "finished" => resp.kind = "fx" /\ resp.short = "FT"

\* a scan in which the Score Source gave pending for a match that ended
\* after extra time and a finished 0-3 for a match at full time
C16_Witness ==
    \E p \in Procs :
      /\ variant # "part_001"
      /\ \E k \in At(RunLog(p), "score") :
           RunLog(p)[k].note = "pending" /\ RunLog(p)[k].args[4].short = "AET"
      /\ \E k \in At(RunLog(p), "score") :
           /\ RunLog(p)[k].note = "finished"
           /\ RunLog(p)[k].args[4].short = "FT"
           /\ RunLog(p)[k].args[2] = 0 /\ RunLog(p)[k].args[3] = 3

----------------------------------------------------------------------------
(* Order of the settlement scan *)

\* C17: in one scan nextMatchId is read once, before any record; the n-th
\* record read is id n, and ids stay below nextMatchId; each id has at most
\* one Score Source query and one settlement call, both after its read and
\* before the read of the next id; so settlement calls are issued in
\* ascending id order; a completed scan has read every id below nextMatchId.
C17_ScanAscending ==
    \A p \in Procs :
      LET l == RunLog(p)
          reads == At(l, "matches")
      IN  /\ Cardinality(At(l, "nextMatchId")) <= 1
          /\ \A k \in reads :
               /\ l[k].key = Cardinality({j \in reads : j <= k})
               /\ l[k].key < inv[p].nextMatchId
               /\ \E j \in Accepted(l, "nextMatchId") : j < k
          /\ \A id \in DOMAIN matches :
               /\ Cardinality(Of(l, "score", id)) <= 1
               /\ Cardinality(Of(l, "settleMatchOffChain", id)) <= 1
               /\ \A k \in Of(l, "score", id) \cup Of(l, "settleMatchOffChain", id) :
                    /\ \E j \in Of(l, "matches", id) : j < k
                    /\ \A j \in reads : l[j].key > id => k < j
          /\ \A k \in At(l, "settleMatchOffChain") :
               \A j \in At(l, "settleMatchOffChain") :
                 l[k].key < l[j].key => k < j
          /\ Completed(p) /\ Accepted(l, "nextMatchId") # {} =>
               /\ Cardinality(reads) = inv[p].nextMatchId - 1
               /\ inv[p].nextMatchId = Len(matches) + 1

\* a completed scan over two records that settled id 1 and then id 2
C17_Witness ==
    \E p \in Procs :
      /\ Completed(p)
      /\ inv[p].nextMatchId = 3
      /\ \E k \in Accepted(RunLog(p), "settleMatchOffChain") :
           \E j \in Accepted(RunLog(p), "settleMatchOffChain") :
             RunLog(p)[k].key = 1 /\ RunLog(p)[j].key = 2 /\ k < j

----------------------------------------------------------------------------
(* Reported counts *)

\* C18: in part_000 the created count is at every moment the number of
\* accepted createMatch calls of the run and the settled count the number
\* of accepted settleMatchOffChain calls: a failed call, a skipped fixture
\* and a skipped record change neither, and these are the counts a
\* completed run reports.
C18_CountsMatchSuccesses ==
    \A p \in Procs :
      (variant = "part_000" /\ inv[p].pc # "idle") =>
        /\ inv[p].created = Cardinality(Accepted(RunLog(p), "createMatch"))
        /\ inv[p].settled = Cardinality(Accepted(RunLog(p), "settleMatchOffChain"))

\* a completed run of part_000 that registered one fixture and reports 1
\* created, and whose only settlement call failed and reports 0 settled
C18_Witness ==
    \E p \in Procs :
      /\ variant = "part_000"
      /\ Completed(p)
      /\ inv[p].created = 1
      /\ inv[p].settled = 0
      /\ \E k \in At(RunLog(p), "settleMatchOffChain") : ~RunLog(p)[k].ok

----------------------------------------------------------------------------
(* Overlapping invocations *)

\* C19: with two invocations running at once, each invocation issues a
\* settlement call only for the id it has itself read as unsettled, and at
\* most one per id; nothing stops both from doing so for the same id, so
\* an id can have one call per invocation; the ledger accepts at most one
\* of them.
C19_OneCallPerInvocation ==
    \A id \in DOMAIN matches :
      /\ \A p \in Procs :
           LET l == RunLog(p)
           IN  /\ Cardinality(Of(l, "settleMatchOffChain", id)) <= 1
               /\ \A k \in Of(l, "settleMatchOffChain", id) :
                    /\ l[k].args[1] = id
                    /\ \E j \in Of(l, "matches", id) :
                         j < k /\ l[j].ok /\ l[j].args[1].outcome = 0
      /\ Cardinality({p \in Procs :
                        \E k \in Accepted(RunLog(p), "settleMatchOffChain") :
                          RunLog(p)[k].key = id}) <= 1

\* both invocations have read match 1 as unsettled and each has issued a
\* settlement call for it: the first was accepted, the second rejected
C19_Witness ==
    /\ Len(matches) >= 1
    /\ matches[1].outcome # 0
    /\ \A p \in Procs :
         /\ \E j \in Of(RunLog(p), "matches", 1) :
              RunLog(p)[j].ok /\ RunLog(p)[j].args[1].outcome = 0
         /\ Of(RunLog(p), "settleMatchOffChain", 1) # {}
    /\ \E p \in Procs : \E k \in Of(RunLog(p), "settleMatchOffChain", 1) :
         ~RunLog(p)[k].ok

----------------------------------------------------------------------------
(* Eventual settlement *)

Due(id) ==
    /\ id \in DOMAIN matches
    /\ matches[id].exists
    /\ ~matches[id].deleted
    /\ matches[id].outcome = 0
    /\ matches[id].matchTime + 7200 <= clock

Settled(id) == id \in DOMAIN matches /\ matches[id].outcome # 0

\* every binding the variant reads is set
Configured == KeysRead(variant) \subseteq env.has

\* C20: under repeated invocations of a configured worker whose external
\* calls fail only finitely often and whose provider ends up reporting full
\* time, every match that exists, is not deleted, is unsettled and is past
\* matchTime + 7200 is eventually settled.
C20_DueMatchEventuallySettled ==
    \A id \in 1..MaxInitMatches : (Configured /\ Due(id)) ~> Settled(id)

----------------------------------------------------------------------------
(* Quota read failures *)

\* C21: in part_000, when the usage request fails (the request or
\* res.json() throws, or the body cannot be dereferenced), fetchApiUsage
\* gives SAFE_LIMIT: the run does not stop at the quota check and no
\* exception reaches runAutomation; it goes on to the fixtures request of
\* the registration phase.
C21_QuotaReadFailsOpen ==
    \A p \in Procs :
      LET l == RunLog(p)
      IN  \A k \in At(l, "status") :
            ~l[k].ok =>
              /\ inv[p].exit # "quota"
              /\ k = Len(l) => inv[p].pc = "league"
              /\ k < Len(l) => l[k + 1].op = "fixtures"

\* a completed run whose usage request returned a body that was not JSON
\* and which went on to request the fixtures
C21_Witness ==
    \E p \in Procs :
      /\ Completed(p)
      /\ \E k \in At(RunLog(p), "status") :
           ~RunLog(p)[k].ok /\ RunLog(p)[k].note = "badjson"
      /\ Accepted(RunLog(p), "fixtures") # {}

====
